---- MODULE Spec2Model ----
(***************************************************************************)
(* A model of app.js: the CSV line parser, the streaming file reader, the  *)
(* row normaliser, the per-platform aggregation, the cycle segmentation    *)
(* and the single-flight cache in front of them.                           *)
(*                                                                         *)
(* Representation.  A JavaScript string is a sequence of one-character     *)
(* strings, so '' is <<>>.  A value that may be null is a sequence of      *)
(* length at most one: null is <<>> and the number n is <<n>>.  Numbers    *)
(* are integers.  A time value (juld) is held in seconds, DaySecs to the   *)
(* day, so that the calendar-date path (second resolution) is exact.       *)
(***************************************************************************)
EXTENDS Integers, Sequences, FiniteSets, TLC

(***************************************************************************)
(* Bounds of the model.                                                    *)
(***************************************************************************)
MaxEntries == 3
MaxRequests == 3
MaxFiles == 2
MaxLines == 4
MaxCols == 3

(***************************************************************************)
(* Program constants.                                                      *)
(***************************************************************************)
DaySecs == 86400
TimeGapDays == 1
PresGapMax == 50

NULL == <<>>
Some(x) == <<x>>
Val(o) == o[1]

(***************************************************************************)
(* Strings.                                                                *)
(***************************************************************************)
Upper == <<"A","B","C","D","E","F","G","H","I","J","K","L","M",
           "N","O","P","Q","R","S","T","U","V","W","X","Y","Z">>
Lower == <<"a","b","c","d","e","f","g","h","i","j","k","l","m",
           "n","o","p","q","r","s","t","u","v","w","x","y","z">>
DigitChars == <<"0","1","2","3","4","5","6","7","8","9">>

LowerOf == [c \in {Upper[i] : i \in 1..26} |-> Lower[CHOOSE i \in 1..26 : Upper[i] = c]]

ToLowerChar(c) == IF c \in DOMAIN LowerOf THEN LowerOf[c] ELSE c

\* String.prototype.toLowerCase
ToLowerCase(s) == [i \in 1..Len(s) |-> ToLowerChar(s[i])]

IsSpace(c) == c \in {" ", "\t", "\r", "\n"}

RECURSIVE TrimStart(_)
TrimStart(s) ==
  IF s # <<>> /\ IsSpace(Head(s)) THEN TrimStart(Tail(s)) ELSE s

RECURSIVE TrimEnd(_)
TrimEnd(s) ==
  IF s # <<>> /\ IsSpace(s[Len(s)]) THEN TrimEnd(SubSeq(s, 1, Len(s) - 1)) ELSE s

\* String.prototype.trim
Trim(s) == TrimEnd(TrimStart(s))

DigitOf == [c \in {DigitChars[i] : i \in 1..10} |-> (CHOOSE i \in 1..10 : DigitChars[i] = c) - 1]

IsDigit(c) == c \in DOMAIN DigitOf
DigitVal(c) == DigitOf[c]

\* the longest prefix of s made of digits
RECURSIVE DigitPrefix(_)
DigitPrefix(s) ==
  IF s # <<>> /\ IsDigit(Head(s)) THEN <<Head(s)>> \o DigitPrefix(Tail(s)) ELSE <<>>

\* the decimal value of a sequence of digits (0 for the empty sequence)
RECURSIVE DigitsValue(_)
DigitsValue(ds) ==
  IF ds = <<>> THEN 0
  ELSE 10 * DigitsValue(SubSeq(ds, 1, Len(ds) - 1)) + DigitVal(ds[Len(ds)])

\* parseInt(s) of a non-empty sequence of digits
ParseIntDigits(ds) == DigitsValue(ds)

\* parseFloat on the integer literals of the model: leading white space is
\* skipped, an optional sign and the longest run of digits are read, anything
\* after them is ignored; NULL stands for NaN (no digit where one is needed).
ParseFloat(s) ==
  LET t == TrimStart(s)
      neg == t # <<>> /\ Head(t) = "-"
      u == IF t # <<>> /\ Head(t) \in {"-", "+"} THEN Tail(t) ELSE t
      ds == DigitPrefix(u)
  IN IF ds = <<>> THEN NULL
     ELSE Some(IF neg THEN 0 - DigitsValue(ds) ELSE DigitsValue(ds))

\* toNumber(value): null for undefined/null and for a string that parseFloat
\* does not read as a finite number.
toNumber(value) == ParseFloat(Trim(value))

(***************************************************************************)
(* parseCsvLine                                                            *)
(***************************************************************************)
\* one iteration of the for loop at index st.i (1-based)
\* CsvStep without the doubled quote: inside a quoted region every quote
\* closes the region
CsvStepNoEscape(line, st) ==
  LET char == line[st.i] IN
  IF st.inQuotes
  THEN IF char = "\""
       THEN [st EXCEPT !.inQuotes = FALSE, !.i = @ + 1]
       ELSE [st EXCEPT !.current = @ \o <<char>>, !.i = @ + 1]
  ELSE IF char = ","
       THEN [st EXCEPT !.values = Append(@, st.current), !.current = <<>>, !.i = @ + 1]
       ELSE IF char = "\""
            THEN [st EXCEPT !.inQuotes = TRUE, !.i = @ + 1]
            ELSE [st EXCEPT !.current = @ \o <<char>>, !.i = @ + 1]

CsvStep(line, st) ==
  LET char == line[st.i] IN
  IF st.inQuotes
  THEN IF char = "\""
       THEN IF st.i + 1 <= Len(line) /\ line[st.i + 1] = "\""
            THEN [st EXCEPT !.current = @ \o <<"\"">>, !.i = @ + 2]
            ELSE [st EXCEPT !.inQuotes = FALSE, !.i = @ + 1]
       ELSE [st EXCEPT !.current = @ \o <<char>>, !.i = @ + 1]
  ELSE IF char = ","
       THEN [st EXCEPT !.values = Append(@, st.current), !.current = <<>>, !.i = @ + 1]
       ELSE IF char = "\""
            THEN [st EXCEPT !.inQuotes = TRUE, !.i = @ + 1]
            ELSE [st EXCEPT !.current = @ \o <<char>>, !.i = @ + 1]

RECURSIVE CsvLoop(_, _)
CsvLoop(line, st) ==
  IF st.i > Len(line) THEN st ELSE CsvLoop(line, CsvStep(line, st))

parseCsvLine(line) ==
  LET st == CsvLoop(line, [i |-> 1, current |-> <<>>, inQuotes |-> FALSE, values |-> <<>>])
  IN Append(st.values, st.current)

(***************************************************************************)
(* The alias lists of the row callback, in the order the code lists them.  *)
(***************************************************************************)
PlatformAliases ==
  << <<"P","L","A","T","F","O","R","M","_","N","U","M","B","E","R">>,
     <<"p","l","a","t","f","o","r","m","_","n","u","m","b","e","r">>,
     <<"a","r","g","o","_","i","d">>,
     <<"p","l","a","t","f","o","r","m","i","d">> >>

LatitudeAliases ==
  << <<"L","A","T","I","T","U","D","E">>,
     <<"l","a","t","i","t","u","d","e">>,
     <<"l","a","t">> >>

LongitudeAliases ==
  << <<"L","O","N","G","I","T","U","D","E">>,
     <<"l","o","n","g","i","t","u","d","e">>,
     <<"l","o","n">>,
     <<"l","n","g">> >>

PresAliases ==
  << <<"P","R","E","S">>,
     <<"p","r","e","s">>,
     <<"p","r","e","s","s","u","r","e">> >>

TempAliases ==
  << <<"T","E","M","P">>,
     <<"t","e","m","p">>,
     <<"t","e","m","p","e","r","a","t","u","r","e">> >>

PsalAliases ==
  << <<"P","S","A","L">>,
     <<"p","s","a","l">>,
     <<"s","a","l","i","n","i","t","y">> >>

DoxyAliases ==
  << <<"D","O","X","Y">>,
     <<"d","o","x","y">>,
     <<"o","x","y","g","e","n">> >>

NitrateAliases ==
  << <<"N","I","T","R","A","T","E">>,
     <<"n","i","t","r","a","t","e">>,
     <<"N","I","T","R","A","T","E","_","A","D","J","U","S","T","E","D">>,
     <<"n","i","t","r","a","t","e","_","a","d","j","u","s","t","e","d">> >>

PhAliases ==
  << <<"P","H","_","I","N","_","S","I","T","U","_","T","O","T","A","L">>,
     <<"p","h","_","i","n","_","s","i","t","u","_","t","o","t","a","l">>,
     <<"P","H","_","I","N","_","S","I","T","U","_","T","O","T","A","L","_","A","D","J","U","S","T","E","D">>,
     <<"p","h">> >>

OrganizationAliases ==
  << <<"D","A","T","A","_","C","E","N","T","R","E">>,
     <<"d","a","t","a","_","c","e","n","t","r","e">>,
     <<"O","R","G","A","N","I","Z","A","T","I","O","N">>,
     <<"o","r","g","a","n","i","z","a","t","i","o","n">>,
     <<"O","R","G">>,
     <<"o","r","g">> >>

JuldAliases ==
  << <<"J","U","L","D">>,
     <<"j","u","l","d">>,
     <<"J","U","L","D","_","A","D","J","U","S","T","E","D">> >>

DateAliases ==
  << <<"D","A","T","E","_","C","R","E","A","T","I","O","N">>,
     <<"d","a","t","e","_","c","r","e","a","t","i","o","n">>,
     <<"D","A","T","E">>,
     <<"d","a","t","e">>,
     <<"D","A","T","E","_","U","P","D","A","T","E">> >>

CycleAliases ==
  << <<"C","Y","C","L","E","_","N","U","M","B","E","R">>,
     <<"c","y","c","l","e","_","n","u","m","b","e","r">>,
     <<"c","y","c","l","e">> >>

(***************************************************************************)
(* parseCsvFileStream: a row object is the sequence of its <<key, value>>   *)
(* properties in insertion order (the order Object.keys lists them in).    *)
(***************************************************************************)
HasProp(obj, k) == \E i \in 1..Len(obj) : obj[i][1] = k

GetProp(obj, k) == obj[CHOOSE i \in 1..Len(obj) : obj[i][1] = k][2]

\* obj[k] = v: an existing property keeps its position
SetProp(obj, k, v) ==
  IF HasProp(obj, k)
  THEN [i \in 1..Len(obj) |-> IF obj[i][1] = k THEN <<k, v>> ELSE obj[i]]
  ELSE Append(obj, <<k, v>>)

ObjectKeys(obj) == [i \in 1..Len(obj) |-> obj[i][1]]

\* the for loop that zips the header with the values of one line
RECURSIVE ZipRow(_, _, _, _)
ZipRow(header, values, i, obj) ==
  IF i > Len(header) THEN obj
  ELSE ZipRow(header, values, i + 1,
              SetProp(obj, header[i], IF i <= Len(values) THEN values[i] ELSE <<>>))

\* the 'line' listener: st = [header, rows], rows being the objects handed to onRow
LineListener(st, line) ==
  LET trimmed == Trim(line) IN
  IF trimmed = <<>> THEN st
  ELSE IF st.header = NULL
       THEN LET names == parseCsvLine(trimmed)
            IN [st EXCEPT !.header = Some([i \in 1..Len(names) |-> Trim(names[i])])]
       ELSE [st EXCEPT !.rows = Append(@, ZipRow(Val(st.header), parseCsvLine(line), 1, <<>>))]

RECURSIVE ReadLines(_, _, _)
ReadLines(lines, i, st) ==
  IF i > Len(lines) THEN st ELSE ReadLines(lines, i + 1, LineListener(st, lines[i]))

\* The rows parseCsvFileStream hands to onRow, in order, for a file whose
\* stream delivers `lines`.
parseCsvFileStream(lines) ==
  ReadLines(lines, 1, [header |-> NULL, rows |-> <<>>]).rows

(***************************************************************************)
(* The row callback of loadFloatsStreaming.                                *)
(***************************************************************************)
\* lines 226-227: keyMap, from the lower-case form of a key to the key.
\* keyMap.set runs over Object.keys(r) in order, so a later key with the same
\* lower-case form replaces an earlier one.
KeyMapOf(r) ==
  LET lowered == [i \in 1..Len(r) |-> ToLowerCase(r[i][1])]
  IN [l \in {lowered[i] : i \in 1..Len(r)} |->
        r[CHOOSE i \in 1..Len(r) :
            /\ lowered[i] = l
            /\ \A j \in (i + 1)..Len(r) : lowered[j] # l][1]]

RECURSIVE GetFrom(_, _, _, _)
GetFrom(r, keyMap, names, n) ==
  IF n > Len(names) THEN <<>>
  ELSE LET lname == ToLowerCase(names[n]) IN
       IF /\ lname \in DOMAIN keyMap
          /\ keyMap[lname] # <<>>
          /\ GetProp(r, keyMap[lname]) # <<>>
       THEN GetProp(r, keyMap[lname])
       ELSE GetFrom(r, keyMap, names, n + 1)

\* get(names), for the row r and its keyMap
get(r, keyMap, names) == GetFrom(r, keyMap, names, 1)

\* str.replace(/[^0-9]/g, '')
RECURSIVE OnlyDigits(_)
OnlyDigits(s) ==
  IF s = <<>> THEN <<>>
  ELSE IF IsDigit(Head(s)) THEN <<Head(s)>> \o OnlyDigits(Tail(s))
       ELSE OnlyDigits(Tail(s))

\* days from 1970-01-01 to the first of month m (1..12) of year y
DaysFromCivil(y, m) ==
  LET yy == IF m <= 2 THEN y - 1 ELSE y
      era == yy \div 400
      yoe == yy - era * 400
      mp == IF m > 2 THEN m - 3 ELSE m + 9
      doy == (153 * mp + 2) \div 5
      doe == yoe * 365 + yoe \div 4 - yoe \div 100 + doy
  IN era * 146097 + doe - 719468

\* Date.UTC(y, m, d, hh, mm, ss) in seconds since 1970-01-01T00:00:00Z: a
\* year 0..99 means 1900 + y, and month, day and time components overflow
\* into the next larger unit.
DateUTC(y, m, d, hh, mm, ss) ==
  LET year == IF y >= 0 /\ y <= 99 THEN 1900 + y ELSE y
      days == DaysFromCivil(year + (m \div 12), (m % 12) + 1) + (d - 1)
  IN days * DaySecs + hh * 3600 + mm * 60 + ss

\* Date.parse('1950-01-01T00:00:00Z'), in seconds
epoch1950 == DateUTC(1950, 0, 1, 0, 0, 0)

\* new Date(ms).toISOString(): the instant, in seconds since epoch1950
IsoOf(secs) == Some(secs - epoch1950)

Slice(s, a, b) == SubSeq(s, a + 1, b)

\* lines 251-277: <<juld, dateIso>> of a row
TimeAxis(r, keyMap) ==
  LET rawJuld == get(r, keyMap, JuldAliases)
      juld == toNumber(rawJuld)
      digits == OnlyDigits(get(r, keyMap, DateAliases))
      y == ParseIntDigits(Slice(digits, 0, 4))
      m == ParseIntDigits(Slice(digits, 4, 6)) - 1
      d == ParseIntDigits(Slice(digits, 6, 8))
      hh == IF Len(digits) >= 10 THEN ParseIntDigits(Slice(digits, 8, 10)) ELSE 0
      mm == IF Len(digits) >= 12 THEN ParseIntDigits(Slice(digits, 10, 12)) ELSE 0
      ss == IF Len(digits) >= 14 THEN ParseIntDigits(Slice(digits, 12, 14)) ELSE 0
      dt == DateUTC(y, m, d, hh, mm, ss)
      cycle == toNumber(get(r, keyMap, CycleAliases))
  IN IF juld # NULL
     THEN <<Some(Val(juld) * DaySecs), IsoOf(epoch1950 + Val(juld) * DaySecs)>>
     ELSE IF Len(digits) >= 8
          THEN <<Some(dt - epoch1950), IsoOf(dt)>>
          ELSE IF cycle # NULL THEN <<Some(Val(cycle) * DaySecs), NULL>>
               ELSE <<NULL, NULL>>

\* the entry object built at lines 278-290
EntryOf(r, keyMap, lat, lon) ==
  LET time == TimeAxis(r, keyMap) IN
  [latitude |-> lat,
   longitude |-> lon,
   pres |-> toNumber(get(r, keyMap, PresAliases)),
   juld |-> time[1],
   temp |-> toNumber(get(r, keyMap, TempAliases)),
   psal |-> toNumber(get(r, keyMap, PsalAliases)),
   doxy |-> toNumber(get(r, keyMap, DoxyAliases)),
   nitrate |-> toNumber(get(r, keyMap, NitrateAliases)),
   ph |-> toNumber(get(r, keyMap, PhAliases)),
   organization |-> Trim(get(r, keyMap, OrganizationAliases)),
   dateIso |-> time[2]]

\* idToEntries is a Map: the sequence of its buckets in insertion order
MapHas(idToEntries, platform) ==
  \E i \in 1..Len(idToEntries) : idToEntries[i].platform = platform

\* mutant of PushEntry: the bucket takes the type of the last file read
PushEntryLastType(idToEntries, platform, entry, sourceType) ==
  LET m == IF MapHas(idToEntries, platform) THEN idToEntries
           ELSE Append(idToEntries,
                       [platform |-> platform, entries |-> <<>>, type |-> sourceType])
  IN [i \in 1..Len(m) |->
        IF m[i].platform = platform
        THEN [m[i] EXCEPT !.entries = Append(@, entry), !.type = sourceType]
        ELSE m[i]]

\* lines 291-295: create the bucket on first sight, push, upgrade the type
PushEntry(idToEntries, platform, entry, sourceType) ==
  LET m == IF MapHas(idToEntries, platform) THEN idToEntries
           ELSE Append(idToEntries,
                       [platform |-> platform, entries |-> <<>>, type |-> sourceType])
  IN [i \in 1..Len(m) |->
        IF m[i].platform = platform
        THEN [m[i] EXCEPT !.entries = Append(@, entry),
                          !.type = IF sourceType = "bgc" THEN "bgc" ELSE @]
        ELSE m[i]]

\* the callback handed to parseCsvFileStream (lines 224-296)
OnRow(idToEntries, r, sourceType) ==
  LET keyMap == KeyMapOf(r)
      platform == Trim(get(r, keyMap, PlatformAliases))
      lat == toNumber(get(r, keyMap, LatitudeAliases))
      lon == toNumber(get(r, keyMap, LongitudeAliases))
  IN IF platform = <<>> THEN idToEntries
     ELSE IF lat = NULL \/ lon = NULL THEN idToEntries
          ELSE PushEntry(idToEntries, platform, EntryOf(r, keyMap, lat, lon), sourceType)

RECURSIVE OnRows(_, _, _, _)
OnRows(idToEntries, rows, i, sourceType) ==
  IF i > Len(rows) THEN idToEntries
  ELSE OnRows(OnRow(idToEntries, rows[i], sourceType), rows, i + 1, sourceType)

(***************************************************************************)
(* finalizeFloatsFromMap                                                   *)
(***************************************************************************)
\* mutant of SortKey: a.juld || -Infinity, which also sends 0 to -Infinity
SortKeyFalsy(juld) == IF juld = Some(0) THEN NULL ELSE juld

\* a.juld ?? -Infinity: NULL stands for -Infinity
SortKey(juld) == juld

\* the comparator of entries.sort, as the sign sort acts on: the difference
\* of two -Infinity keys is NaN, which sort treats as 0
Compare(a, b) ==
  LET aj == SortKey(a.juld)
      bj == SortKey(b.juld)
  IN IF aj = NULL /\ bj = NULL THEN 0
     ELSE IF aj = NULL THEN -1
          ELSE IF bj = NULL THEN 1
               ELSE Val(aj) - Val(bj)

\* e put into the sorted sequence s behind every element that does not
\* compare greater than it
RECURSIVE InsertSorted(_, _)
InsertSorted(s, e) ==
  IF s = <<>> THEN <<e>>
  ELSE IF Compare(s[Len(s)], e) <= 0 THEN Append(s, e)
       ELSE Append(InsertSorted(SubSeq(s, 1, Len(s) - 1), e), s[Len(s)])

RECURSIVE SortFrom(_, _, _)
SortFrom(entries, i, acc) ==
  IF i > Len(entries) THEN acc
  ELSE SortFrom(entries, i + 1, InsertSorted(acc, entries[i]))

\* Array.prototype.sort with the comparator above: the stable sort
SortEntries(entries) == SortFrom(entries, 1, <<>>)

\* the truthiness of a number or null, as in `lastJuld ? ... : 0`
Truthy(n) == n # NULL /\ n # Some(0)

\* a number or null as an operand of - and <
ToNum(n) == IF n = NULL THEN 0 ELSE Val(n)

Abs(x) == IF x < 0 THEN 0 - x ELSE x

\* lines 126-129: the state of the walk before the first entry
WalkInit == [cycles |-> <<>>, currentCycle |-> <<>>, lastJuld |-> NULL, lastPres |-> NULL]

\* the condition of line 136
StartsCycle(w, entry, index) ==
  LET timeGap == IF Truthy(w.lastJuld) THEN Abs(ToNum(entry.juld) - ToNum(w.lastJuld)) ELSE 0
      presGap == IF Truthy(w.lastPres) THEN Abs(ToNum(entry.pres) - ToNum(w.lastPres)) ELSE 0
  IN \/ index = 0
     \/ timeGap > TimeGapDays * DaySecs
     \/ (presGap > PresGapMax /\ ToNum(entry.pres) < ToNum(w.lastPres))

\* mutant of WalkStep: a new cycle is started without the open one being
\* pushed to cycles
WalkStepDropsOpenCycle(w, entry, index) ==
  IF StartsCycle(w, entry, index)
  THEN [cycles |-> w.cycles,
        currentCycle |-> <<entry>>,
        lastJuld |-> entry.juld,
        lastPres |-> entry.pres]
  ELSE [cycles |-> w.cycles,
        currentCycle |-> Append(w.currentCycle, entry),
        lastJuld |-> entry.juld,
        lastPres |-> entry.pres]

\* one call of the forEach callback (lines 131-147); index counts from 0
WalkStep(w, entry, index) ==
  IF StartsCycle(w, entry, index)
  THEN [cycles |-> IF Len(w.currentCycle) > 0 THEN Append(w.cycles, w.currentCycle)
                   ELSE w.cycles,
        currentCycle |-> <<entry>>,
        lastJuld |-> entry.juld,
        lastPres |-> entry.pres]
  ELSE [cycles |-> w.cycles,
        currentCycle |-> Append(w.currentCycle, entry),
        lastJuld |-> entry.juld,
        lastPres |-> entry.pres]

RECURSIVE WalkFrom(_, _, _)
WalkFrom(entries, i, w) ==
  IF i > Len(entries) THEN w
  ELSE WalkFrom(entries, i + 1, WalkStep(w, entries[i], i - 1))

\* lines 149-151: the cycles once the walk has ended
CloseCycles(w) ==
  IF Len(w.currentCycle) > 0 THEN Append(w.cycles, w.currentCycle) ELSE w.cycles

\* mutant of LatestOf: the first entry of the last cycle
LatestOfFirst(cycles) == cycles[Len(cycles)][1]

\* line 154
LatestOf(cycles) == cycles[Len(cycles)][Len(cycles[Len(cycles)])]

\* the object literal of lines 157-169 and 174-186
HistoryView(h) ==
  [latitude |-> h.latitude, longitude |-> h.longitude, pres |-> h.pres,
   juld |-> h.juld, temp |-> h.temp, psal |-> h.psal, doxy |-> h.doxy,
   nitrate |-> h.nitrate, ph |-> h.ph, organization |-> h.organization,
   dateIso |-> h.dateIso]

\* the object literal of lines 188-198
CycleView(h) ==
  [latitude |-> h.latitude, longitude |-> h.longitude, pres |-> h.pres,
   juld |-> h.juld, temp |-> h.temp, psal |-> h.psal, doxy |-> h.doxy,
   nitrate |-> h.nitrate, ph |-> h.ph]

\* bucket.type || 'core'
TypeOf(bucket) == IF bucket.type = "" THEN "core" ELSE bucket.type

\* lines 171-199: the record pushed for a bucket whose entries are sorted
\* and whose cycles are closed
MakeFloat(platform, type, entries, cycles) ==
  [id |-> platform,
   type |-> type,
   latest |-> HistoryView(LatestOf(cycles)),
   history |-> [i \in 1..Len(entries) |-> HistoryView(entries[i])],
   cycles |-> [c \in 1..Len(cycles) |->
                 [i \in 1..Len(cycles[c]) |-> CycleView(cycles[c][i])]]]

\* the body of the for loop over the buckets (lines 118-199)
FinalizeBucket(bucket) ==
  LET entries == SortEntries(bucket.entries)
      cycles == CloseCycles(WalkFrom(entries, 1, WalkInit))
  IN MakeFloat(bucket.platform, TypeOf(bucket), entries, cycles)

finalizeFloatsFromMap(idToEntries) ==
  [i \in 1..Len(idToEntries) |-> FinalizeBucket(idToEntries[i])]

(***************************************************************************)
(* loadFloatsStreaming: the directory scan                                 *)
(***************************************************************************)
\* A directory tree under one root is the sequence of its files in the
\* order the scan meets them; a file is [dirs, name, ext]: the directories
\* between the root and the file, its base name and its extension.
SegBgc == <<"b","g","c">>
SegCore == <<"c","o","r","e">>
SegData == <<"d","a","t","a">>
ExtCsv == <<".","c","s","v">>

\* __dirname, as its path segments
Dirname == << <<"s","r","v">>, <<"a","p","p">> >>

\* listFilesRecursive(startDir, {'.csv'}): the paths (sequences of segments)
\* of the files of the tree whose lower-cased extension is allowed
RECURSIVE listFilesRecursive(_, _)
listFilesRecursive(startDir, tree) ==
  IF tree = <<>> THEN <<>>
  ELSE LET d == Head(tree)
           full == startDir \o d.dirs \o <<d.name \o d.ext>>
       IN IF ToLowerCase(d.ext) = ExtCsv
          THEN <<full>> \o listFilesRecursive(startDir, Tail(tree))
          ELSE listFilesRecursive(startDir, Tail(tree))

\* lines 205-210: the bgc root is scanned first, then the core root
AllFiles(fs) ==
  listFilesRecursive(Dirname \o <<SegData, SegBgc>>, fs.bgc)
    \o listFilesRecursive(Dirname \o <<SegData, SegCore>>, fs.core)

\* line 223: file.toLowerCase().includes(sep + 'bgc' + sep), that is, some
\* directory segment of the path is 'bgc' in lower case
SourceTypeOf(file) ==
  IF \E i \in 1..(Len(file) - 1) : ToLowerCase(file[i]) = SegBgc THEN "bgc" ELSE "core"

(***************************************************************************)
(* State.                                                                  *)
(***************************************************************************)
VARIABLES
  FLOATS_CACHE,     \* null, or Some(the stored array of float records)
  CACHE_BUILDING,   \* null, or Some(n): the promise of the n-th build
  promises,         \* promises[n]: the promise ensureCache made for build n
  req,              \* req[r]: the caller r of `await ensureCache()`
  loads,            \* loads[n]: the n-th call of loadFloatsStreaming
  floats,           \* what a direct call of loadFloatsStreaming returned
  fin,              \* a call of finalizeFloatsFromMap on one bucket, step by step
  row,              \* a row object handed to the row callback
  resolved,         \* what get(names) returned for it
  faults,           \* whether rows of a file whose read faulted pushed an entry
  served,           \* the responses of the API routes, in the order sent
  text,             \* a line, or the lines of a file, handed to a parser
  parsed            \* what the parser returned for it

vars ==
  <<FLOATS_CACHE, CACHE_BUILDING, promises, req, loads, floats, fin, row, resolved,
    faults, served, text, parsed>>
cacheVars == <<FLOATS_CACHE, CACHE_BUILDING, promises, req>>
loadVars == <<loads, floats>>
finVars == <<fin>>
fnVars == <<text, parsed>>
auxVars == <<faults, served, fnVars>>
rowVars == <<row, resolved, auxVars>>

\* what a call has read so far: the number of 'line' events, the platforms
\* that received an entry from a bgc-tagged and from a core-tagged file, the
\* identifiers of the valid rows, and whether a row had two columns whose
\* names differ in case only
SeenNone ==
  [lines |-> 0, bgcIds |-> {}, coreIds |-> {}, validIds |-> {}, caseTwins |-> FALSE]
FinIdle == [pc |-> "idle"]
ReqIdle == [pc |-> "idle", on |-> 0, epoch |-> 0, outcome |-> NULL]

CacheInit ==
  /\ FLOATS_CACHE = NULL
  /\ CACHE_BUILDING = NULL
  /\ promises = <<>>
  /\ req = [r \in 1..MaxRequests |-> ReqIdle]

LoadInit == loads = <<>> /\ floats = NULL
FinInit == fin = FinIdle
FaultsNone == [filePushed |-> FALSE, faultPushed |-> FALSE]
AuxInit == faults = FaultsNone /\ served = <<>> /\ text = <<>> /\ parsed = NULL
RowInit == row = <<>> /\ resolved = NULL /\ AuxInit

(***************************************************************************)
(* The row contract the aggregate is held to: a logical field of a row is  *)
(* the value of the first listed alias that some column of the row carries *)
(* (names compared without regard to case) with a non-empty value, the     *)
(* column spelled exactly like the alias being preferred.                  *)
(***************************************************************************)
ColumnsOf(r, name) ==
  {i \in 1..Len(r) : ToLowerCase(r[i][1]) = ToLowerCase(name) /\ r[i][2] # <<>>}

FieldOfColumns(r, name) ==
  LET cols == ColumnsOf(r, name)
      exact == {i \in cols : r[i][1] = name}
      pick == IF exact # {} THEN CHOOSE i \in exact : \A j \in exact : i <= j
              ELSE CHOOSE i \in cols : \A j \in cols : i <= j
  IN r[pick][2]

RECURSIVE FieldFrom(_, _, _)
FieldFrom(r, names, n) ==
  IF n > Len(names) THEN <<>>
  ELSE IF ColumnsOf(r, names[n]) # {} THEN FieldOfColumns(r, names[n])
       ELSE FieldFrom(r, names, n + 1)

Field(r, names) == FieldFrom(r, names, 1)

RowId(r) == Trim(Field(r, PlatformAliases))

RowValid(r) ==
  /\ RowId(r) # <<>>
  /\ toNumber(Field(r, LatitudeAliases)) # NULL
  /\ toNumber(Field(r, LongitudeAliases)) # NULL

\* two columns of the row have names that differ in case only
CaseTwins(r) ==
  \E i, j \in 1..Len(r) : i # j /\ ToLowerCase(r[i][1]) = ToLowerCase(r[j][1])

(***************************************************************************)
(* loadFloatsStreaming, one 'line' event at a time.                        *)
(***************************************************************************)
\* the state of the call once the directory scan (lines 205-218) is done
LoadStarted(fs) ==
  IF Len(AllFiles(fs)) = 0
  THEN [pc |-> "empty"]
  ELSE [pc |-> "reading", allFiles |-> AllFiles(fs), file |-> 1,
        header |-> NULL, idToEntries |-> <<>>]

\* what the 'line' listener does with one line of the file being read:
\* [header, rows], rows holding the row object it hands to onRow, if any
Listened(ld, line) == LineListener([header |-> ld.header, rows |-> <<>>], line)

\* the state of the call after that 'line' event, row callback included
LoadAfterLine(ld, st) ==
  [ld EXCEPT !.header = st.header,
             !.idToEntries = OnRows(@, st.rows, 1, SourceTypeOf(ld.allFiles[ld.file]))]

\* the promise of parseCsvFileStream settles ('close' resolves it, 'error'
\* rejects it into the catch of line 297): the for loop goes on
LoadNextFile(ld) ==
  IF ld.file < Len(ld.allFiles)
  THEN [ld EXCEPT !.file = @ + 1, !.header = NULL]
  ELSE [pc |-> "finalize", idToEntries |-> ld.idToEntries]

\* what the call returns
LoadResult(ld) ==
  IF ld.pc = "empty" THEN <<>> ELSE finalizeFloatsFromMap(ld.idToEntries)

\* a call that has started and neither returned nor thrown
Running(ld) == ld.pc \in {"empty", "reading", "finalize"}

\* the platforms whose bucket received an entry between two maps
Pushed(before, after) ==
  {after[i].platform : i \in {j \in 1..Len(after) :
      \/ j > Len(before)
      \/ Len(after[j].entries) > Len(before[j].entries)}}

SeenAfterLine(sn, ld, st, after) ==
  LET type == SourceTypeOf(ld.allFiles[ld.file])
      pushed == Pushed(ld.idToEntries, after.idToEntries)
  IN [lines |-> sn.lines + 1,
      bgcIds |-> IF type = "bgc" THEN sn.bgcIds \cup pushed ELSE sn.bgcIds,
      coreIds |-> IF type = "core" THEN sn.coreIds \cup pushed ELSE sn.coreIds,
      validIds |-> sn.validIds \cup
        {RowId(st.rows[i]) : i \in {j \in 1..Len(st.rows) : RowValid(st.rows[j])}},
      caseTwins |-> sn.caseTwins \/ \E i \in 1..Len(st.rows) : CaseTwins(st.rows[i])]

\* a new call of loadFloatsStreaming on the directory tree fs
NewLoad(fs) == [call |-> LoadStarted(fs), seen |-> SeenNone]

\* a 'line' event of call n, for a line drawn from `lines`
ReadLine(n, lines) ==
  /\ loads[n].call.pc = "reading"
  /\ loads[n].seen.lines < MaxLines
  /\ \E line \in lines :
       LET st == Listened(loads[n].call, line)
           ld == LoadAfterLine(loads[n].call, st)
       IN loads' = [loads EXCEPT ![n] =
                      [call |-> ld, seen |-> SeenAfterLine(loads[n].seen, loads[n].call, st, ld)]]

\* the 'close' event of the file call n is reading
CloseFile(n) ==
  /\ loads[n].call.pc = "reading"
  /\ loads' = [loads EXCEPT ![n].call = LoadNextFile(@)]

\* the 'error' event of the file call n is reading
FileError(n) ==
  /\ loads[n].call.pc = "reading"
  /\ loads' = [loads EXCEPT ![n].call = LoadNextFile(@)]

(***************************************************************************)
(* Inputs of the ingestion pass.                                           *)
(***************************************************************************)
RECURSIVE JoinComma(_)
JoinComma(fields) ==
  IF Len(fields) = 0 THEN <<>>
  ELSE IF Len(fields) = 1 THEN fields[1]
       ELSE fields[1] \o <<",">> \o JoinComma(Tail(fields))

\* sequences over S of length at most n
SeqsUpTo(S, n) == UNION {[1..k -> S] : k \in 0..n}

\* the i-th file of a directory: f<i>.<ext>
Named(kind, i) == [kind EXCEPT !.name = <<"f", DigitChars[i + 1]>>]

FlatCsv == [dirs |-> <<>>, name |-> <<"f">>, ext |-> ExtCsv]
FlatTxt == [dirs |-> <<>>, name |-> <<"f">>, ext |-> <<".","t","x","t">>]
NestedCsv == [dirs |-> << <<"B","g","c">> >>, name |-> <<"f">>, ext |-> <<".","C","S","V">>]

\* the directory trees: at most MaxFiles files under data/bgc and data/core
Trees ==
  {[bgc |-> [i \in 1..Len(b) |-> Named(b[i], i)],
    core |-> [i \in 1..Len(c) |-> Named(c[i], i)]] :
     <<b, c>> \in {<<x, y>> \in SeqsUpTo({FlatCsv, FlatTxt}, MaxFiles)
                                  \X SeqsUpTo({FlatCsv, NestedCsv}, MaxFiles) :
                     Len(x) + Len(y) <= MaxFiles}}

\* header lines: argo_id,LATITUDE,lon,JULD and
\* PLATFORM_NUMBER,LATITUDE,latitude,LONGITUDE
HeaderPlain ==
  JoinComma(<<PlatformAliases[3], LatitudeAliases[1], LongitudeAliases[3], JuldAliases[1]>>)
HeaderTwins ==
  JoinComma(<<PlatformAliases[1], LatitudeAliases[1], LatitudeAliases[2], LongitudeAliases[1]>>)
Headers == {HeaderPlain, HeaderTwins}

\* data lines
DataLines1001 == <<"1","0","0","1",",","1","0",",","2","0",",","0">>
DataLines2002 == <<"2","0","0","2",",","1","0",",","2","0",",","1">>
DataLines ==
  {DataLines1001,
   <<" ","1","0","0","1"," ",",","1","1",",","2","1",",","3">>,
   DataLines2002,
   <<"3","0","0","3",",","1","0",",",",","1">>,
   <<",","1","0",",","2","0",",","1">>,
   <<"4","0","0","4",",",",",",","1">>}

\* the lines the stream of the file a call is reading may deliver next
NextLines(ld, headers, data) == IF ld.header = NULL THEN headers ELSE data

(***************************************************************************)
(* IngestSpec: one call of loadFloatsStreaming.                            *)
(***************************************************************************)
IngestInit == CacheInit /\ LoadInit /\ FinInit /\ RowInit

IngestStart ==
  /\ loads = <<>>
  /\ \E fs \in Trees : loads' = <<NewLoad(fs)>>
  /\ UNCHANGED <<floats, cacheVars, finVars, rowVars>>

IngestLine ==
  /\ loads # <<>>
  /\ loads[1].call.pc = "reading"
  /\ ReadLine(1, NextLines(loads[1].call, Headers, DataLines))
  /\ UNCHANGED <<floats, cacheVars, finVars, rowVars>>

IngestClose ==
  /\ loads # <<>>
  /\ CloseFile(1)
  /\ UNCHANGED <<floats, cacheVars, finVars, rowVars>>

IngestError ==
  /\ loads # <<>>
  /\ FileError(1)
  /\ UNCHANGED <<floats, cacheVars, finVars, rowVars>>

IngestReturn ==
  /\ loads # <<>>
  /\ loads[1].call.pc \in {"empty", "finalize"}
  /\ floats' = Some(LoadResult(loads[1].call))
  /\ loads' = [loads EXCEPT ![1].call = [pc |-> "returned"]]
  /\ UNCHANGED <<cacheVars, finVars, rowVars>>

IngestNext == IngestStart \/ IngestLine \/ IngestClose \/ IngestError \/ IngestReturn

IngestSpec == IngestInit /\ [][IngestNext]_vars

(***************************************************************************)
(* Claims about the ingestion pass (IngestSpec).                           *)
(***************************************************************************)
\* the map of the call, while it has one
Buckets1 ==
  IF loads # <<>> /\ loads[1].call.pc \in {"reading", "finalize"}
  THEN loads[1].call.idToEntries ELSE <<>>

Seen1 == IF loads # <<>> THEN loads[1].seen ELSE SeenNone

\* C8: a bucket's kind is bgc exactly when an entry from a bgc-tagged file
\* was pushed to it, in the map and in the returned records, and no step of
\* the pass takes a bucket's kind from bgc back to core.
C8_KindMatchesSources ==
  /\ \A i \in 1..Len(Buckets1) :
       (Buckets1[i].type = "bgc") <=> (Buckets1[i].platform \in Seen1.bgcIds)
  /\ floats # NULL =>
       \A i \in 1..Len(Val(floats)) :
         /\ Val(floats)[i].type \in {"bgc", "core"}
         /\ (Val(floats)[i].type = "bgc") <=> (Val(floats)[i].id \in Seen1.bgcIds)

C8_NoDowngrade ==
  \A i \in 1..Len(Buckets1) :
    Buckets1[i].type = "bgc" =>
      \/ loads'[1].call.pc \notin {"reading", "finalize"}
      \/ /\ i <= Len(Buckets1')
         /\ Buckets1'[i].platform = Buckets1[i].platform
         /\ Buckets1'[i].type = "bgc"

C8_StickyKind == [](C8_KindMatchesSources) /\ [][C8_NoDowngrade]_vars

\* C8 witness: a record of kind bgc whose bucket was created by an entry of
\* a core-tagged file and upgraded by an entry of a bgc-tagged file read later
C8_Witness ==
  /\ floats # NULL
  /\ Seen1.lines = MaxLines
  /\ \E i \in 1..Len(Val(floats)) :
       /\ Val(floats)[i].type = "bgc"
       /\ Val(floats)[i].id \in Seen1.coreIds
       /\ Val(floats)[i].id \in Seen1.bgcIds
       /\ Len(Val(floats)[i].history) = 2

\* the returned aggregate holds exactly one record for each identifier that
\* contributed a valid row, none for any other identifier, and every record
\* has a non-empty history
OneRecordPerValidId ==
  /\ {Val(floats)[i].id : i \in 1..Len(Val(floats))} = Seen1.validIds
  /\ \A i, j \in 1..Len(Val(floats)) : Val(floats)[i].id = Val(floats)[j].id => i = j
  /\ \A i \in 1..Len(Val(floats)) : Len(Val(floats)[i].history) > 0

\* C9: the returned aggregate holds exactly one record for each identifier
\* that contributed a valid row (identifier present, latitude and longitude
\* numeric), none for an identifier all of whose rows were dropped; the
\* record ids are pairwise distinct and every history is non-empty.
C9_OneRecordPerValidId == floats # NULL => OneRecordPerValidId

\* C9 holds of the passes in which no row has two columns whose names differ
\* in case only (the rows get resolves as the contract does)
C9_WithoutCaseTwins == (floats # NULL /\ ~Seen1.caseTwins) => OneRecordPerValidId


\* the root under which the scan discovered a file: the segment that follows
\* __dirname/data in its path
RootOf(file) == IF file[Len(Dirname) + 2] = SegBgc THEN "bgc" ELSE "core"

\* the file a call is reading
FileRead(ld) == ld.allFiles[ld.file]

C17_LineTagsByRoot ==
  (/\ loads # <<>>
   /\ loads[1].call.pc = "reading"
   /\ loads'[1].call.pc = "reading"
   /\ RootOf(FileRead(loads[1].call)) = "core")
    => \A i \in 1..Len(Buckets1') :
         IF i <= Len(Buckets1) THEN Buckets1'[i].type = Buckets1[i].type
         ELSE Buckets1'[i].type = "core"

\* C17: an entry read from a file discovered under the core root is tagged
\* core, whatever the directories between the root and the file are called:
\* a row of such a file creates its bucket with kind core and leaves the kind
\* of an existing bucket as it is.
C17_KindFollowsRoot == [][C17_LineTagsByRoot]_vars

\* the tag follows the root for the files that have no directory named bgc
\* (in any case) between the root and the file
C17_WithoutNestedBgc ==
  [][(loads # <<>> /\ loads[1].call.pc = "reading"
        /\ \A i \in (Len(Dirname) + 3)..(Len(FileRead(loads[1].call)) - 1) :
              ToLowerCase(FileRead(loads[1].call)[i]) # SegBgc)
      => C17_LineTagsByRoot]_vars

(***************************************************************************)
(* FaultSpec: one call of loadFloatsStreaming whose files may fault.       *)
(***************************************************************************)
\* the data lines of the files: 1001,10,20,0 and 2002,10,20,1
FaultDataLines == {DataLines1001, DataLines2002}

FaultInit == IngestInit

FaultStart == IngestStart

\* a 'line' event: faults.filePushed tells whether the file being read has
\* pushed an entry
FaultLine ==
  /\ loads # <<>>
  /\ ReadLine(1, NextLines(loads[1].call, {HeaderPlain}, FaultDataLines))
  /\ faults' = [faults EXCEPT !.filePushed =
                  @ \/ Pushed(loads[1].call.idToEntries, loads'[1].call.idToEntries) # {}]
  /\ UNCHANGED <<floats, cacheVars, finVars, row, resolved, served, fnVars>>

\* the file ends with 'close'
FaultClose ==
  /\ loads # <<>>
  /\ CloseFile(1)
  /\ faults' = [faults EXCEPT !.filePushed = FALSE]
  /\ UNCHANGED <<floats, cacheVars, finVars, row, resolved, served, fnVars>>

\* the read of the file faults: 'error' at open (no line read) or part-way
FaultError ==
  /\ loads # <<>>
  /\ FileError(1)
  /\ faults' = [filePushed |-> FALSE, faultPushed |-> faults.faultPushed \/ faults.filePushed]
  /\ UNCHANGED <<floats, cacheVars, finVars, row, resolved, served, fnVars>>

FaultReturn == IngestReturn

FaultNext == FaultStart \/ FaultLine \/ FaultClose \/ FaultError \/ FaultReturn

FaultSpec == FaultInit /\ [][FaultNext]_vars

\* C11: a file whose read faults, at open or part-way through, contributes
\* no entry to any bucket: no entry of the map was pushed by a row of a file
\* whose stream ended with 'error'.
C11_FaultedFileContributesNothing == ~faults.faultPushed

\* a fault ends one file only: the call goes on to the next file or to the
\* finalization and returns an aggregate, it never throws
C11_FaultIsNotFatal ==
  loads # <<>> => loads[1].call.pc \in {"empty", "reading", "finalize", "returned"}

(***************************************************************************)
(* ensureCache and its callers.                                            *)
(***************************************************************************)
\* mutant of CacheHit: an empty array counts as no cache
CacheHitNonEmpty(cache) == cache # NULL /\ Len(Val(cache)) > 0

\* line 310: if (FLOATS_CACHE); an array, empty or not, is truthy
CacheHit(cache) == cache # NULL

\* mutant of StartsBuild: a build is started whether or not one is running
StartsBuildAlways(building) == TRUE

\* line 311: if (!CACHE_BUILDING)
StartsBuild(building) == building = NULL

\* lines 313-318: the cache after the then callback
ThenCallback(cache, result) == Some(result)

\* line 319: the promise of the build once the then callback has returned
ThenSettles(cache) == [state |-> "fulfilled", value |-> Val(cache)]

\* mutant of CatchSettles: the catch callback swallows the error
CatchSwallows(n) == [state |-> "fulfilled", value |-> <<"undefined">>]

\* line 322: the promise of build n once the catch callback has thrown
CatchSettles(n) == [state |-> "rejected", value |-> <<"error of build", n>>]

\* mutant of CatchCallback: the rejected promise stays in CACHE_BUILDING
CatchCallbackKeeps(building) == building

\* line 321: CACHE_BUILDING after the catch callback
CatchCallback(building) == NULL

\* the promises settled so far
Settled == {n \in 1..Len(promises) : promises[n].state # "pending"}

\* the directory trees, header and data lines of the passes behind the cache
CacheTrees ==
  {[bgc |-> <<Named(FlatTxt, 1)>>, core |-> <<>>],
   [bgc |-> <<>>, core |-> <<Named(FlatCsv, 1)>>]}

CacheDataLines == {<<"1","0","0","1",",","1","0",",","2","0",",","0">>}

\* caller r runs `await ensureCache()` up to the await (lines 309-326)
Request(r) ==
  /\ req[r].pc = "idle"
  /\ IF CacheHit(FLOATS_CACHE)
     THEN /\ req' = [req EXCEPT ![r] =
                       [pc |-> "waiting", on |-> 0, epoch |-> Cardinality(Settled),
                        outcome |-> Some(<<"fulfilled", Val(FLOATS_CACHE)>>)]]
          /\ UNCHANGED <<FLOATS_CACHE, CACHE_BUILDING, promises, loads>>
     ELSE IF StartsBuild(CACHE_BUILDING)
          THEN /\ \E fs \in CacheTrees : loads' = Append(loads, NewLoad(fs))
               /\ promises' = Append(promises, [state |-> "pending", value |-> NULL])
               /\ CACHE_BUILDING' = Some(Len(promises) + 1)
               /\ req' = [req EXCEPT ![r] =
                            [pc |-> "waiting", on |-> Len(promises) + 1,
                             epoch |-> Cardinality(Settled), outcome |-> NULL]]
               /\ UNCHANGED FLOATS_CACHE
          ELSE /\ req' = [req EXCEPT ![r] =
                            [pc |-> "waiting", on |-> Val(CACHE_BUILDING),
                             epoch |-> Cardinality(Settled), outcome |-> NULL]]
               /\ UNCHANGED <<FLOATS_CACHE, CACHE_BUILDING, promises, loads>>
  /\ UNCHANGED <<floats, finVars, rowVars>>

\* a 'line' event of a running pass
PassLine(n) ==
  /\ ReadLine(n, NextLines(loads[n].call, {HeaderPlain}, CacheDataLines))
  /\ UNCHANGED <<cacheVars, floats, finVars, rowVars>>

PassClose(n) == CloseFile(n) /\ UNCHANGED <<cacheVars, floats, finVars, rowVars>>

PassError(n) == FileError(n) /\ UNCHANGED <<cacheVars, floats, finVars, rowVars>>

\* loadFloatsStreaming returns and the then callback runs (lines 312-319)
Resolve(n) ==
  /\ loads[n].call.pc \in {"empty", "finalize"}
  /\ FLOATS_CACHE' = ThenCallback(FLOATS_CACHE, LoadResult(loads[n].call))
  /\ CACHE_BUILDING' = NULL
  /\ promises' = [promises EXCEPT ![n] = ThenSettles(FLOATS_CACHE')]
  /\ loads' = [loads EXCEPT ![n] = [call |-> [pc |-> "returned",
                                             result |-> LoadResult(loads[n].call)],
                                   seen |-> SeenNone]]
  /\ UNCHANGED <<req, floats, finVars, rowVars>>

\* loadFloatsStreaming throws outside the per-file try and the catch callback
\* runs (lines 320-323)
Reject(n) ==
  /\ Running(loads[n].call)
  /\ CACHE_BUILDING' = CatchCallback(CACHE_BUILDING)
  /\ promises' = [promises EXCEPT ![n] = CatchSettles(n)]
  /\ loads' = [loads EXCEPT ![n] = [call |-> [pc |-> "threw"], seen |-> SeenNone]]
  /\ UNCHANGED <<FLOATS_CACHE, req, floats, finVars, rowVars>>

\* the await of caller r resumes with what its promise settled to
Resume(r) ==
  /\ req[r].pc = "waiting"
  /\ IF req[r].on = 0 THEN TRUE ELSE promises[req[r].on].state # "pending"
  /\ req' = [req EXCEPT ![r].pc = "done",
                        ![r].outcome = IF req[r].on = 0 THEN @
                                       ELSE Some(<<promises[req[r].on].state,
                                                   promises[req[r].on].value>>)]
  /\ UNCHANGED <<FLOATS_CACHE, CACHE_BUILDING, promises, loads, floats, finVars, rowVars>>

Init == CacheInit /\ LoadInit /\ FinInit /\ RowInit

Next ==
  \/ \E r \in 1..MaxRequests : Request(r)
  \/ \E r \in 1..MaxRequests : Resume(r)
  \/ \E n \in 1..Len(loads) : PassLine(n)
  \/ \E n \in 1..Len(loads) : PassClose(n)
  \/ \E n \in 1..Len(loads) : PassError(n)
  \/ \E n \in 1..Len(loads) : Resolve(n)
  \/ \E n \in 1..Len(loads) : Reject(n)

Spec == Init /\ [][Next]_vars

\* call n has finished its files and is about to return
Returns(n) == n <= Len(loads) /\ loads[n].call.pc \in {"empty", "finalize"}

\* Weak fairness of Resolve(n), written out: a Resolve(n) step is possible
\* exactly when Returns(n) holds, and it changes loads.
ResolveFair(n) == []<>(~Returns(n)) \/ []<><<n <= Len(loads) /\ Resolve(n)>>_vars

\* The event loop runs every callback that is ready: a file that is being
\* read reaches its end, a finished call returns, a settled await resumes.
FairSpec ==
  /\ Spec
  /\ \A n \in 1..MaxRequests : WF_vars(n <= Len(loads) /\ PassClose(n))
  /\ \A n \in 1..MaxRequests : ResolveFair(n)
  /\ \A r \in 1..MaxRequests : WF_vars(Resume(r))

(***************************************************************************)
(* Claims about the cache (Spec and FairSpec).                             *)
(***************************************************************************)
\* the passes that are running
RunningPasses == {n \in 1..Len(loads) : Running(loads[n].call)}

\* the passes that returned an aggregate
ReturnedPasses == {n \in 1..Len(loads) : loads[n].call.pc = "returned"}

\* caller r issues its request in this step
Issues(r) == req[r].pc = "idle" /\ req'[r].pc # "idle"

C1_OnePassRunning == Cardinality(RunningPasses) <= 1

C1_OnePassBeforeFirstCompletion ==
  Settled = {} =>
    Len(loads) = IF \E r \in 1..MaxRequests : req[r].pc # "idle" THEN 1 ELSE 0

C1_AttachesToRunningPass ==
  \A r \in 1..MaxRequests : \A n \in RunningPasses :
    Issues(r) => /\ Len(loads') = Len(loads)
                 /\ req'[r].on = n

\* C1: at most one ingestion pass is running at any time, the requests issued
\* before the first pass completes start exactly one pass, and a request
\* issued while a pass is running attaches to it and starts no other.
C1_SingleFlight ==
  /\ [](C1_OnePassRunning /\ C1_OnePassBeforeFirstCompletion)
  /\ [][C1_AttachesToRunningPass]_vars

\* C1 witness: every caller has issued its request and awaits the promise of
\* the one pass, which is in the middle of a file
C1_Witness ==
  /\ Len(loads) = 1
  /\ loads[1].call.pc = "reading"
  /\ loads[1].seen.lines >= 2
  /\ \A r \in 1..MaxRequests : req[r].pc = "waiting" /\ req[r].on = 1

\* what a caller receives when pass n has ended
PassOutcome(n) ==
  IF loads[n].call.pc = "returned"
  THEN Some(<<"fulfilled", loads[n].call.result>>)
  ELSE Some(<<"rejected", <<"error of build", n>> >>)

\* the callers whose request found no stored aggregate
Awaiting == {r \in 1..MaxRequests : req[r].pc # "idle" /\ req[r].on # 0}

C2_OutcomeOfEndedPass ==
  \A r \in Awaiting :
    req[r].pc = "done" => /\ ~Running(loads[req[r].on].call)
                          /\ req[r].outcome = PassOutcome(req[r].on)

\* requests issued with no pass ending between them were issued while the
\* same attempt was pending
C2_SameOutcome ==
  \A r1, r2 \in Awaiting :
    (req[r1].epoch = req[r2].epoch /\ req[r1].pc = "done" /\ req[r2].pc = "done")
      => req[r1].outcome = req[r2].outcome

C2_Resolves == \A r \in 1..MaxRequests : (req[r].pc = "waiting") ~> (req[r].pc = "done")

\* C2: every request issued while a build attempt was pending eventually
\* resolves, all the requests of one attempt resolve to the same outcome, the
\* aggregate the pass returned or the failure it threw, and no caller
\* receives anything from a pass that has not ended.
C2_SameOutcomeForAllWaiters ==
  /\ [](C2_OutcomeOfEndedPass /\ C2_SameOutcome)
  /\ C2_Resolves

\* C2 witness: every caller awaited the same pass, which read rows, and all
\* have resumed with its aggregate
C2_Witness ==
  /\ Len(loads) = 1
  /\ loads[1].call.pc = "returned"
  /\ Len(loads[1].call.result) > 0
  /\ \A r \in 1..MaxRequests :
       req[r].pc = "done" /\ req[r].on = 1 /\ req[r].outcome = PassOutcome(1)

\* pass n fails in this step
Fails(n) == Running(loads[n].call) /\ loads'[n].call.pc = "threw"

\* the most recent pass has failed
LastPassFailed == Len(loads) > 0 /\ loads[Len(loads)].call.pc = "threw"

C3_RevertsToEmpty ==
  \A n \in 1..Len(loads) :
    Fails(n) => FLOATS_CACHE' = NULL /\ CACHE_BUILDING' = NULL

C3_WaitersReceiveFailure ==
  \A r \in Awaiting :
    (req[r].pc = "done" /\ loads[req[r].on].call.pc = "threw")
      => req[r].outcome = Some(<<"rejected", <<"error of build", req[r].on>> >>)

C3_NextRequestRetries ==
  \A r \in 1..MaxRequests :
    (LastPassFailed /\ Issues(r))
      => /\ Len(loads') = Len(loads) + 1
         /\ Running(loads'[Len(loads')].call)
         /\ req'[r].on = Len(loads')
         /\ promises'[Len(loads')].state = "pending"

\* C3: when a pass fails no aggregate is stored and no build is pending, every
\* waiter of the attempt receives its failure, and the next request starts a
\* fresh pass.
C3_FailureRevertsToEmpty ==
  /\ [](C3_WaitersReceiveFailure)
  /\ [][C3_RevertsToEmpty /\ C3_NextRequestRetries]_vars

\* C3 witness: two callers awaited the first pass and resumed with its
\* failure, a third one came later and awaits a second pass
C3_Witness ==
  /\ Len(loads) = 2
  /\ loads[1].call.pc = "threw"
  /\ Running(loads[2].call)
  /\ \E r1, r2, r3 \in 1..MaxRequests :
       /\ r1 # r2
       /\ req[r1].pc = "done" /\ req[r1].on = 1 /\ req[r1].outcome[1][1] = "rejected"
       /\ req[r2].pc = "done" /\ req[r2].on = 1 /\ req[r2].outcome[1][1] = "rejected"
       /\ req[r3].pc = "waiting" /\ req[r3].on = 2

C4_AtMostOneSuccess == Cardinality(ReturnedPasses) <= 1

C4_StoredAggregateKept ==
  \A n \in ReturnedPasses :
    /\ FLOATS_CACHE = Some(loads[n].call.result)
    /\ FLOATS_CACHE' = FLOATS_CACHE
    /\ Len(loads') = Len(loads)
    /\ \A r \in 1..MaxRequests :
         Issues(r) => req'[r].outcome = Some(<<"fulfilled", loads[n].call.result>>)

C4_ReadyRequestsReceiveIt ==
  \A r \in 1..MaxRequests :
    (req[r].pc = "done" /\ req[r].on = 0)
      => \E n \in ReturnedPasses : req[r].outcome = PassOutcome(n)

\* C4: once a pass has returned, with an empty aggregate or not, the stored
\* aggregate never changes, every later request receives it, no pass is
\* started any more, and at most one pass ever returns.
C4_ReadyIsAbsorbing ==
  /\ [](C4_AtMostOneSuccess /\ C4_ReadyRequestsReceiveIt)
  /\ [][C4_StoredAggregateKept]_vars

\* C4 witness: the only pass found no CSV file and returned the empty
\* aggregate, and a request issued after that has resumed with it
C4_Witness ==
  /\ Len(loads) = 1
  /\ loads[1].call.pc = "returned"
  /\ loads[1].call.result = <<>>
  /\ \E r \in 1..MaxRequests :
       req[r].pc = "done" /\ req[r].on = 0 /\ req[r].outcome = Some(<<"fulfilled", <<>> >>)

(***************************************************************************)
(* SegSpec: finalizeFloatsFromMap on one bucket, statement by statement.   *)
(***************************************************************************)
Platform1001 == <<"1","0","0","1">>

\* the i-th entry pushed to the bucket; its latitude tells the entries apart
EntryAt(i, juld, pres) ==
  [latitude |-> Some(i), longitude |-> Some(0), pres |-> pres, juld |-> juld,
   temp |-> NULL, psal |-> NULL, doxy |-> NULL, nitrate |-> NULL, ph |-> NULL,
   organization |-> <<>>, dateIso |-> juld]

JuldValues == {NULL, Some(0), Some(DaySecs), Some(3 * DaySecs)}
PresValues == {NULL, Some(0), Some(100), Some(0 - 100)}

\* the buckets handed to the segmentation: 1..MaxEntries entries in any
\* arrival order
Buckets ==
  {[platform |-> Platform1001, type |-> t,
    entries |-> [i \in 1..Len(e) |-> EntryAt(i, e[i][1], e[i][2])]] :
     <<t, e>> \in {"core", "bgc"} \X (SeqsUpTo(JuldValues \X PresValues, MaxEntries) \ {<<>>})}

SegInit ==
  /\ CacheInit /\ LoadInit /\ RowInit
  /\ fin \in {[pc |-> "sort", bucket |-> b] : b \in Buckets}

\* lines 118-129
SegSort ==
  /\ fin.pc = "sort"
  /\ fin' = [pc |-> "walk", bucket |-> fin.bucket,
             entries |-> SortEntries(fin.bucket.entries), index |-> 0, w |-> WalkInit]
  /\ UNCHANGED <<cacheVars, loadVars, rowVars>>

\* one call of the forEach callback
SegWalk ==
  /\ fin.pc = "walk"
  /\ fin.index < Len(fin.entries)
  /\ fin' = [fin EXCEPT !.w = WalkStep(@, fin.entries[fin.index + 1], fin.index),
                        !.index = @ + 1]
  /\ UNCHANGED <<cacheVars, loadVars, rowVars>>

\* lines 149-199
SegClose ==
  /\ fin.pc = "walk"
  /\ fin.index = Len(fin.entries)
  /\ fin' = [pc |-> "done", bucket |-> fin.bucket,
             float |-> MakeFloat(fin.bucket.platform, TypeOf(fin.bucket), fin.entries,
                                 CloseCycles(fin.w))]
  /\ UNCHANGED <<cacheVars, loadVars, rowVars>>

SegNext == SegSort \/ SegWalk \/ SegClose

SegSpec == SegInit /\ [][SegNext]_vars

(***************************************************************************)
(* Claims about the segmentation (SegSpec).                                *)
(***************************************************************************)
RECURSIVE Flatten(_)
Flatten(ss) == IF ss = <<>> THEN <<>> ELSE Head(ss) \o Flatten(Tail(ss))

\* C5: the cycles of a record, concatenated in order, are its history (on
\* the fields the cycles keep), and no cycle is empty.
C5_PartitionLaw ==
  fin.pc = "done" =>
    /\ Flatten(fin.float.cycles)
         = [i \in 1..Len(fin.float.history) |-> CycleView(fin.float.history[i])]
    /\ \A c \in 1..Len(fin.float.cycles) : Len(fin.float.cycles[c]) > 0

C5_Witness ==
  /\ fin.pc = "done"
  /\ Len(fin.float.cycles) >= 2
  /\ \E c \in 1..Len(fin.float.cycles) : Len(fin.float.cycles[c]) >= 2

\* C6: the history holds every entry pushed to the bucket, in non-decreasing
\* order of time value, the entries without a time value first.
C6_HistorySorted ==
  fin.pc = "done" =>
    LET h == fin.float.history IN
    /\ Len(h) = Len(fin.bucket.entries)
    /\ \A e \in 1..Len(h) : \E i \in 1..Len(h) : h[i] = fin.bucket.entries[e]
    /\ \A i, j \in 1..Len(h) :
         i < j => \/ h[i].juld = NULL
                  \/ (h[j].juld # NULL /\ Val(h[i].juld) <= Val(h[j].juld))

\* C6 witness: entries pushed out of order, one without a time value after a
\* timed one and a time value of 0 among them
C6_Witness ==
  /\ fin.pc = "done"
  /\ Len(fin.bucket.entries) >= 3
  /\ \E i, j, k \in 1..Len(fin.bucket.entries) :
       /\ i < j /\ j < k
       /\ fin.bucket.entries[i].juld = Some(DaySecs)
       /\ fin.bucket.entries[j].juld = Some(0)
       /\ fin.bucket.entries[k].juld = NULL

\* C7: latest is the last element of the history and (on the fields the
\* cycles keep) the last entry of the last cycle.
C7_LatestIsLast ==
  fin.pc = "done" =>
    LET f == fin.float
        lastCycle == f.cycles[Len(f.cycles)]
    IN /\ f.latest = f.history[Len(f.history)]
       /\ CycleView(f.latest) = lastCycle[Len(lastCycle)]

C7_Witness ==
  /\ fin.pc = "done"
  /\ Len(fin.float.cycles) = 2
  /\ Len(fin.float.cycles[2]) = 2
  /\ fin.float.latest.latitude # fin.bucket.entries[Len(fin.bucket.entries)].latitude
\* the positions in the history at which the cycles start
RECURSIVE CycleStart(_, _)
CycleStart(cycles, c) ==
  IF c = 1 THEN 1 ELSE CycleStart(cycles, c - 1) + Len(cycles[c - 1])

CycleStarts(cycles) == {CycleStart(cycles, c) : c \in 1..Len(cycles)}

\* the gap between two values, which exists when both are present
HasGap(a, b) == a # NULL /\ b # NULL
Gap(a, b) == Abs(Val(a) - Val(b))

\* entry k of the history is more than a day from its predecessor
TimeRule(h, k) ==
  HasGap(h[k].juld, h[k - 1].juld) /\ Gap(h[k].juld, h[k - 1].juld) > TimeGapDays * DaySecs

\* entry k is more than 50 dbar from its predecessor and above it
PresRule(h, k) ==
  /\ HasGap(h[k].pres, h[k - 1].pres)
  /\ Gap(h[k].pres, h[k - 1].pres) > PresGapMax
  /\ Val(h[k].pres) < Val(h[k - 1].pres)

\* C13: a non-first entry of the sorted sequence that has a time value, as
\* its predecessor has, and is more than 1.0 day from it, starts a cycle.
C13_TimeGapStartsCycle ==
  fin.pc = "done" =>
    \A k \in 2..Len(fin.float.history) :
      TimeRule(fin.float.history, k) => k \in CycleStarts(fin.float.cycles)

\* the rule holds when the predecessor's time value is not 0
C13_NonZeroPredecessor ==
  fin.pc = "done" =>
    \A k \in 2..Len(fin.float.history) :
      (TimeRule(fin.float.history, k) /\ fin.float.history[k - 1].juld # Some(0))
        => k \in CycleStarts(fin.float.cycles)

\* C14: a non-first entry that has a pressure, as its predecessor has, is
\* more than 50 from it and below it, starts a cycle.
C14_PresGapStartsCycle ==
  fin.pc = "done" =>
    \A k \in 2..Len(fin.float.history) :
      PresRule(fin.float.history, k) => k \in CycleStarts(fin.float.cycles)

\* the rule holds when the predecessor's pressure is not 0
C14_NonZeroPredecessor ==
  fin.pc = "done" =>
    \A k \in 2..Len(fin.float.history) :
      (PresRule(fin.float.history, k) /\ fin.float.history[k - 1].pres # Some(0))
        => k \in CycleStarts(fin.float.cycles)

\* C15: a non-first entry starts a cycle only if the time rule or the
\* pressure rule applies to it; otherwise it is in its predecessor's cycle.
C15_NoSpuriousCycle ==
  fin.pc = "done" =>
    \A k \in 2..Len(fin.float.history) :
      k \in CycleStarts(fin.float.cycles)
        => TimeRule(fin.float.history, k) \/ PresRule(fin.float.history, k)

\* the bucket with its entries appended in the order p
Reordered(bucket, p) ==
  [bucket EXCEPT !.entries = [i \in 1..Len(bucket.entries) |-> bucket.entries[p[i]]]]

Orders(n) == {p \in [1..n -> 1..n] : \A i, j \in 1..n : p[i] = p[j] => i = j}

\* C16: the record does not depend on the order in which the entries were
\* appended to the bucket: every order gives the history, the cycles and the
\* latest that the order taken gave.
C16_ArrivalOrderIndependent ==
  fin.pc = "done" =>
    \A p \in Orders(Len(fin.bucket.entries)) :
      LET other == FinalizeBucket(Reordered(fin.bucket, p))
      IN /\ other.history = fin.float.history
         /\ other.cycles = fin.float.cycles
         /\ other.latest = fin.float.latest

(***************************************************************************)
(* GetSpec: the alias resolver of onRow applied to the latitude of a row.  *)
(***************************************************************************)
\* column names: LATITUDE, latitude, lat and Lat
ColumnNames ==
  {LatitudeAliases[1], LatitudeAliases[2], LatitudeAliases[3], <<"L","a","t">>}

\* cell values: the empty cell, 10 and 20
CellValues == {<<>>, <<"1","0">>, <<"2","0">>}

\* the row objects the 'line' listener builds from a header and a line of
\* at most MaxCols cells each
Rows ==
  {ZipRow(hv[1], hv[2], 1, <<>>) :
     hv \in {x \in SeqsUpTo(ColumnNames, MaxCols) \X SeqsUpTo(CellValues, MaxCols) :
               Len(x[1]) = Len(x[2])}}

GetInit ==
  /\ CacheInit /\ LoadInit /\ FinInit
  /\ row \in Rows
  /\ resolved = NULL
  /\ AuxInit

\* line 239: get(['LATITUDE', 'latitude', 'lat']) on the row
GetLatitude ==
  /\ resolved = NULL
  /\ resolved' = Some(get(row, KeyMapOf(row), LatitudeAliases))
  /\ UNCHANGED <<row, auxVars, cacheVars, loadVars, finVars>>

GetNext == GetLatitude

GetSpec == GetInit /\ [][GetNext]_vars

\* C10: for a row that holds a LATITUDE and a latitude column, both
\* non-empty, in either column order, the resolver returns the value of the
\* first listed alias, LATITUDE.
C10_FirstAliasWins ==
  (/\ resolved # NULL
   /\ HasProp(row, LatitudeAliases[1])
   /\ HasProp(row, LatitudeAliases[2])
   /\ GetProp(row, LatitudeAliases[1]) # <<>>
   /\ GetProp(row, LatitudeAliases[2]) # <<>>)
    => Val(resolved) = GetProp(row, LatitudeAliases[1])

\* the resolver agrees with the row contract on the rows in which no two
\* column names differ in case only
C10_WithoutCaseTwins ==
  (resolved # NULL /\ ~CaseTwins(row)) => Val(resolved) = Field(row, LatitudeAliases)
(***************************************************************************)
(* ApiSpec: GET /api/floats and GET /api/float/:id on a ready cache.       *)
(***************************************************************************)
HistoryCap == 200
CyclesCap == 10
CycleCap == 50

\* arr.slice(-n)
SliceLast(arr, n) ==
  IF Len(arr) <= n THEN arr ELSE SubSeq(arr, Len(arr) - n + 1, Len(arr))

\* lines 347-355
OptimizedFloat(float) ==
  [id |-> float.id,
   type |-> float.type,
   latest |-> float.latest,
   history |-> SliceLast(float.history, HistoryCap),
   cycles |-> LET last == SliceLast(float.cycles, CyclesCap)
              IN [c \in 1..Len(last) |-> SliceLast(last[c], CycleCap)]]

OptimizedFloats(stored) == [i \in 1..Len(stored) |-> OptimizedFloat(stored[i])]

\* mutant of StoredAfterGetAll: the records are capped in place
StoredAfterGetAllCapped(stored) == OptimizedFloats(stored)

\* the stored array once GET /api/floats has answered: map and slice build
\* new arrays and objects, nothing is assigned to a stored record
StoredAfterGetAll(stored) == stored

\* lines 369-375
FloatResponse(stored, floatId) ==
  LET found == {i \in 1..Len(stored) : stored[i].id = floatId}
  IN IF found = {} THEN [status |-> 404, body |-> <<>>]
     ELSE [status |-> 200, body |-> stored[CHOOSE i \in found : \A j \in found : i <= j]]

Platform2002 == <<"2","0","0","2">>
Platform9999 == <<"9","9","9","9">>

\* HistoryCap + 1 entries in time order: the first CyclesCap are two days
\* apart and the others share one time, so that the walk makes CyclesCap + 1
\* cycles of them, the last one with more than CycleCap entries
LongEntries ==
  [i \in 1..(HistoryCap + 1) |->
     EntryAt(i, Some(2 * DaySecs * (IF i <= CyclesCap THEN i ELSE CyclesCap + 1)), Some(100))]

LongCycles ==
  [c \in 1..(CyclesCap + 1) |->
     IF c <= CyclesCap THEN <<LongEntries[c]>>
     ELSE SubSeq(LongEntries, CyclesCap + 1, HistoryCap + 1)]

\* the record finalizeFloatsFromMap pushes for them (lines 171-199)
LongFloat == MakeFloat(Platform1001, "bgc", LongEntries, LongCycles)

ShortBucket ==
  [platform |-> Platform2002, type |-> "core", entries |-> <<EntryAt(1, NULL, NULL)>>]

\* the aggregates a pass may have stored
ApiAggregates ==
  {<<>>, finalizeFloatsFromMap(<<ShortBucket>>),
   <<LongFloat>> \o finalizeFloatsFromMap(<<ShortBucket>>)}

ApiInit ==
  /\ FinInit /\ RowInit
  /\ loads = <<>>
  /\ floats \in {Some(agg) : agg \in ApiAggregates}
  /\ FLOATS_CACHE = floats
  /\ CACHE_BUILDING = NULL
  /\ promises = <<>>
  /\ req = [r \in 1..MaxRequests |-> ReqIdle]

\* GET /api/floats (lines 342-362)
GetAll ==
  /\ Len(served) < MaxRequests
  /\ CacheHit(FLOATS_CACHE)
  /\ served' = Append(served, [route |-> "floats", status |-> 200,
                               body |-> OptimizedFloats(Val(FLOATS_CACHE))])
  /\ FLOATS_CACHE' = Some(StoredAfterGetAll(Val(FLOATS_CACHE)))
  /\ UNCHANGED <<CACHE_BUILDING, promises, req, loadVars, finVars, row, resolved, faults, fnVars>>

\* GET /api/float/:id (lines 365-380)
GetOne(floatId) ==
  /\ Len(served) < MaxRequests
  /\ CacheHit(FLOATS_CACHE)
  /\ served' = Append(served, [route |-> "float", id |-> floatId] @@
                               FloatResponse(Val(FLOATS_CACHE), floatId))
  /\ UNCHANGED <<cacheVars, loadVars, finVars, row, resolved, faults, fnVars>>

ApiNext == GetAll \/ \E floatId \in {Platform1001, Platform2002, Platform9999} : GetOne(floatId)

ApiSpec == ApiInit /\ [][ApiNext]_vars

\* a response of GET /api/float/:id is the whole record the pass stored
C12_GetOneReturnsStored ==
  \A k \in 1..Len(served) :
    (served[k].route = "float" /\ served[k].status = 200)
      => \E i \in 1..Len(Val(floats)) :
           /\ Val(floats)[i].id = served[k].id
           /\ served[k].body = Val(floats)[i]

\* C12: no request changes the stored aggregate: after any sequence of
\* get-all and get-one requests every stored record has the id, kind, latest,
\* history and cycles the pass gave it, and a get-one request answers with
\* the full record.
C12_StoredAggregateUnchanged ==
  /\ FLOATS_CACHE = floats
  /\ C12_GetOneReturnsStored

\* C12 witness: a get-all request was answered with capped history and
\* cycles, and the get-one request after it with the uncapped record
C12_Witness ==
  \E k \in 1..Len(served) : \E l \in (k + 1)..Len(served) :
    /\ served[k].route = "floats"
    /\ \E i \in 1..Len(served[k].body) :
         /\ served[k].body[i].id = Platform1001
         /\ Len(served[k].body[i].history) = HistoryCap
         /\ Len(served[k].body[i].cycles) = CyclesCap
         /\ Len(served[k].body[i].cycles[CyclesCap]) = CycleCap
    /\ served[l].route = "float"
    /\ served[l].id = Platform1001
    /\ served[l].status = 200
    /\ Len(served[l].body.history) = HistoryCap + 1
    /\ Len(served[l].body.cycles) = CyclesCap + 1
    /\ Len(served[l].body.cycles[CyclesCap + 1]) > CycleCap
(***************************************************************************)
(* AxisSpec: the time axis of a row (lines 251-277).                       *)
(***************************************************************************)
\* column names: JULD, juld, DATE and CYCLE_NUMBER
AxisColumnNames == {JuldAliases[1], JuldAliases[2], DateAliases[3], CycleAliases[1]}

\* cell values: the empty cell, 5 and 1950-01-03
DateCell == <<"1","9","5","0","-","0","1","-","0","3">>
AxisCellValues == {<<>>, <<"5">>, DateCell}

AxisRows ==
  {ZipRow(hv[1], hv[2], 1, <<>>) :
     hv \in {x \in SeqsUpTo(AxisColumnNames, MaxCols) \X SeqsUpTo(AxisCellValues, MaxCols) :
               Len(x[1]) = Len(x[2])}}

AxisInit ==
  /\ CacheInit /\ LoadInit /\ FinInit /\ AuxInit
  /\ row \in AxisRows
  /\ resolved = NULL

\* lines 251-277 on the row
AxisResolve ==
  /\ resolved = NULL
  /\ resolved' = Some(TimeAxis(row, KeyMapOf(row)))
  /\ UNCHANGED <<row, auxVars, cacheVars, loadVars, finVars>>

AxisNext == AxisResolve

AxisSpec == AxisInit /\ [][AxisNext]_vars

\* the source the time value of a row is to come from: the julian-day field
\* if numeric, else the date field if it has 8 digits, else the cycle index
\* if numeric
AxisSource(r) ==
  IF toNumber(Field(r, JuldAliases)) # NULL THEN "juld"
  ELSE IF Len(OnlyDigits(Field(r, DateAliases))) >= 8 THEN "date"
       ELSE IF toNumber(Field(r, CycleAliases)) # NULL THEN "cycle"
            ELSE "none"

\* <<juld, dateIso>> as that source gives them; the one date cell with 8
\* digits, 1950-01-03, is two days after the epoch
AxisFromSource(r) ==
  CASE AxisSource(r) = "juld" ->
         <<Some(Val(toNumber(Field(r, JuldAliases))) * DaySecs),
           Some(Val(toNumber(Field(r, JuldAliases))) * DaySecs)>>
    [] AxisSource(r) = "date" ->
         <<Some(2 * DaySecs), Some(2 * DaySecs)>>
    [] AxisSource(r) = "cycle" ->
         <<Some(Val(toNumber(Field(r, CycleAliases))) * DaySecs), NULL>>
    [] OTHER -> <<NULL, NULL>>

\* C18: the time value of a row comes from the julian-day field if that is
\* numeric, else from the date field if it has at least 8 digits, else from
\* the cycle index, and the ISO date is null exactly when the time value came
\* from the cycle index or is absent.
C18_FirstSourceWins ==
  resolved # NULL =>
    /\ Val(resolved) = AxisFromSource(row)
    /\ (Val(resolved)[2] = NULL) <=> (AxisSource(row) \in {"cycle", "none"})

\* the order of the sources is kept on the rows in which no two column names
\* differ in case only
C18_WithoutCaseTwins ==
  (resolved # NULL /\ ~CaseTwins(row)) =>
    /\ Val(resolved) = AxisFromSource(row)
    /\ (Val(resolved)[2] = NULL) <=> (AxisSource(row) \in {"cycle", "none"})
(***************************************************************************)
(* CsvSpec: parseCsvLine on one line.                                      *)
(***************************************************************************)
MaxChars == 5

\* the characters of a line: a letter, the comma and the quote
LineChars == {"a", ",", "\""}

CsvInit ==
  /\ CacheInit /\ LoadInit /\ FinInit
  /\ row = <<>> /\ resolved = NULL /\ faults = FaultsNone /\ served = <<>>
  /\ text \in SeqsUpTo(LineChars, MaxChars)
  /\ parsed = NULL

\* parseCsvLine(line), lines 51-82
CsvParse ==
  /\ parsed = NULL
  /\ parsed' = Some(parseCsvLine(text))
  /\ UNCHANGED <<text, cacheVars, loadVars, finVars, row, resolved, faults, served>>

CsvNext == CsvParse

CsvSpec == CsvInit /\ [][CsvNext]_vars

\* The role of each character of a line, read from left to right: outside a
\* quoted region a comma separates ("sep") and a quote opens a region
\* ("open"); inside one a doubled quote stands for one quote (its first
\* character is dropped, "esc", the second kept), a single quote closes the
\* region ("close"); every other character is kept ("lit").
RECURSIVE Roles(_, _, _)
Roles(line, i, quoted) ==
  IF i > Len(line) THEN <<>>
  ELSE IF quoted
       THEN IF line[i] = "\""
            THEN IF i < Len(line) /\ line[i + 1] = "\""
                 THEN <<"esc", "lit">> \o Roles(line, i + 2, TRUE)
                 ELSE <<"close">> \o Roles(line, i + 1, FALSE)
            ELSE <<"lit">> \o Roles(line, i + 1, TRUE)
       ELSE IF line[i] = "," THEN <<"sep">> \o Roles(line, i + 1, FALSE)
            ELSE IF line[i] = "\"" THEN <<"open">> \o Roles(line, i + 1, TRUE)
                 ELSE <<"lit">> \o Roles(line, i + 1, FALSE)

RolesOf(line) == Roles(line, 1, FALSE)

\* the positions of the separating commas, in order, and the number of them
SepCount(line) == Cardinality({i \in 1..Len(line) : RolesOf(line)[i] = "sep"})

\* the kept characters of the positions a..b
RECURSIVE Kept(_, _, _)
Kept(line, a, b) ==
  IF a > b THEN <<>>
  ELSE IF RolesOf(line)[a] = "lit" THEN <<line[a]>> \o Kept(line, a + 1, b)
       ELSE Kept(line, a + 1, b)

\* the position of the k-th separating comma; 0 for k = 0 and Len + 1 past the last
SepAt(line, k) ==
  IF k = 0 THEN 0
  ELSE IF k > SepCount(line) THEN Len(line) + 1
       ELSE CHOOSE i \in 1..Len(line) :
              /\ RolesOf(line)[i] = "sep"
              /\ Cardinality({j \in 1..i : RolesOf(line)[j] = "sep"}) = k

\* the region opened last is not closed
Unterminated(line) ==
  \E i \in 1..Len(line) :
    /\ RolesOf(line)[i] = "open"
    /\ \A j \in (i + 1)..Len(line) : RolesOf(line)[j] \in {"lit", "esc"}

OpenAt(line) ==
  CHOOSE i \in 1..Len(line) :
    /\ RolesOf(line)[i] = "open"
    /\ \A j \in (i + 1)..Len(line) : RolesOf(line)[j] \in {"lit", "esc"}

HasNoQuote(line) == \A i \in 1..Len(line) : line[i] # "\""

\* C19: parseCsvLine returns at least one field, one more than there are
\* commas outside quoted regions; field k holds the kept characters between
\* the separating commas k - 1 and k, so that a comma inside a region is
\* literal and a doubled quote gives one quote; a line without quotes is
\* the fields joined with commas; after an unterminated quote the rest of
\* the line, commas included, is in the last field.
C19_FieldsOfLine ==
  parsed # NULL =>
    LET fields == Val(parsed) IN
    /\ Len(fields) >= 1
    /\ Len(fields) = 1 + SepCount(text)
    /\ \A k \in 1..Len(fields) :
         fields[k] = Kept(text, SepAt(text, k - 1) + 1, SepAt(text, k) - 1)
    /\ HasNoQuote(text) => JoinComma(fields) = text
    /\ Unterminated(text) =>
         LET last == fields[Len(fields)]
             rest == Kept(text, OpenAt(text) + 1, Len(text))
         IN /\ Len(rest) <= Len(last)
            /\ SubSeq(last, Len(last) - Len(rest) + 1, Len(last)) = rest
            /\ \A j \in (OpenAt(text) + 1)..Len(text) :
                 RolesOf(text)[j] # "sep"

\* C19 witness: the line ",""a is parsed; its quote is not closed and the
\* one field holds ,"a
C19_Witness ==
  /\ text = <<"\"", ",", "\"", "\"", "a">>
  /\ Unterminated(text)
  /\ parsed = Some(<< <<",", "\"", "a">> >>)

(***************************************************************************)
(* StreamSpec: parseCsvFileStream on the lines of one file.                *)
(***************************************************************************)
\* the lines of a file: an empty line, a line of one space, a line whose two
\* names are the same, a line with spaces around a name, a line of three fields
FileLines ==
  { <<>>,
    <<" ">>,
    <<"a", ",", "a">>,
    <<" ", "a", " ", ",", "b">>,
    <<"1", ",", "2", ",", "3">> }

StreamInit ==
  /\ CacheInit /\ LoadInit /\ FinInit
  /\ row = <<>> /\ resolved = NULL /\ faults = FaultsNone /\ served = <<>>
  /\ text \in SeqsUpTo(FileLines, MaxLines)
  /\ parsed = NULL

\* parseCsvFileStream(filePath, onRow), lines 84-107: the stream delivers the
\* lines in order and closes
StreamParse ==
  /\ parsed = NULL
  /\ parsed' = Some(parseCsvFileStream(text))
  /\ UNCHANGED <<text, cacheVars, loadVars, finVars, row, resolved, faults, served>>

StreamNext == StreamParse

StreamSpec == StreamInit /\ [][StreamNext]_vars

\* the positions of the non-blank lines, in file order
RECURSIVE NonBlankFrom(_, _)
NonBlankFrom(lines, i) ==
  IF i > Len(lines) THEN <<>>
  ELSE IF Trim(lines[i]) = <<>> THEN NonBlankFrom(lines, i + 1)
       ELSE <<i>> \o NonBlankFrom(lines, i + 1)

NonBlank(lines) == NonBlankFrom(lines, 1)

\* the header names: the fields of the first non-blank line, trimmed
HeaderNames(lines) ==
  LET fields == parseCsvLine(Trim(lines[NonBlank(lines)[1]]))
  IN [i \in 1..Len(fields) |-> Trim(fields[i])]

DistinctNames(names) ==
  \A i, j \in 1..Len(names) : names[i] = names[j] => i = j

\* the row emitted for a line: its keys are the header names, and header
\* name i is bound to field i of the line, '' past the last field
RowOfLine(obj, names, line) ==
  LET fields == parseCsvLine(line) IN
  /\ {obj[i][1] : i \in 1..Len(obj)} = {names[i] : i \in 1..Len(names)}
  /\ \A i, j \in 1..Len(obj) : obj[i][1] = obj[j][1] => i = j
  /\ \A i \in 1..Len(names) :
       /\ HasProp(obj, names[i])
       /\ GetProp(obj, names[i]) = IF i <= Len(fields) THEN fields[i] ELSE <<>>

\* one row per non-blank line after the header, in file order
RowsOfFile(rows, lines) ==
  LET nb == NonBlank(lines) IN
  IF nb = <<>> THEN rows = <<>>
  ELSE /\ Len(rows) = Len(nb) - 1
       /\ \A k \in 1..Len(rows) :
            RowOfLine(rows[k], HeaderNames(lines), lines[nb[k + 1]])

\* C20: the first non-blank line is the header; the row callback runs once,
\* in file order, for each later non-blank line and for no other line; each
\* row has exactly the header names as keys, header name i bound to field i
\* of the line, '' where the line has no field i, fields past the header
\* dropped.
C20_RowPerDataLine ==
  parsed # NULL => RowsOfFile(Val(parsed), text)

\* C20, for headers whose names are all different
C20_WithDistinctNames ==
  (parsed # NULL /\ NonBlank(text) # <<>> /\ DistinctNames(HeaderNames(text)))
    => RowsOfFile(Val(parsed), text)

\* C20: the number and order of the rows, whatever the header
C20_OneRowPerLaterLine ==
  parsed # NULL =>
    LET nb == NonBlank(text) IN
    /\ Len(Val(parsed)) = IF nb = <<>> THEN 0 ELSE Len(nb) - 1
    /\ \A k \in 1..Len(Val(parsed)) :
         LET fields == parseCsvLine(text[nb[k + 1]])
             names == HeaderNames(text)
             last(n) == CHOOSE i \in 1..Len(names) :
                          names[i] = n /\ \A j \in (i + 1)..Len(names) : names[j] # n
         IN \A i \in 1..Len(Val(parsed)[k]) :
              LET p == Val(parsed)[k][i] IN
              p[2] = IF last(p[1]) <= Len(fields) THEN fields[last(p[1])] ELSE <<>>
====
